---- MODULE Spec2Model ----
(***************************************************************************)
(* Model of the multi-provider chat gateway: the agent dispatcher          *)
(* (services/agent_router.py), the three provider tool-call loops          *)
(* (agents/openai_agent.py, agents/anthropic_agent.py,                     *)
(* agents/google_gemini_agent.py), the tool registry (tools/registry.py)   *)
(* and the upload-directory file reader (tools/file_reader.py).            *)
(*                                                                         *)
(* The language model and the tool executors are the environment: every    *)
(* provider call returns a response drawn from a small set, every executor  *)
(* either returns a Python value or raises.                                 *)
(***************************************************************************)
EXTENDS Integers, Sequences, FiniteSets, TLC

\* ------------------------------------------------------------------ bounds
\* Largest number of tool calls the model puts in one response.
MaxCalls == 2
\* Largest number of components in a relative path given to FileReader.read.
MaxPathLen == 4

\* Largest number of names in a list given to ToolRegistry.get.
MaxNames == 3
\* Largest number of registry operations looked at in a row.
MaxOps == 2
\* Largest number of messages in a conversation history.
MaxMsgs == 3
\* Number of chat requests in flight at the same time.
MaxRequests == 3

\* ------------------------------------------------------- program constants
\* The iteration cap of the OpenAI and Anthropic loops: for _ in range(4).
MAX_ROUNDS == 4

\* Worker threads of the executor behind asyncio.to_thread: min(32, cpus + 4),
\* taken for a single cpu (the smallest pool).
ThreadPoolWorkers == 5

\* ----------------------------------------------------------------- strings
\* Stand-in for one non-ASCII character (U+2014 EM DASH, as SearchTool puts
\* between title, url and snippet).
NonAscii == "^"

RECURSIVE LStrip(_)
LStrip(s) ==
    IF Len(s) > 0 /\ SubSeq(s, 1, 1) = " " THEN LStrip(SubSeq(s, 2, Len(s))) ELSE s

RECURSIVE RStrip(_)
RStrip(s) ==
    IF Len(s) > 0 /\ SubSeq(s, Len(s), Len(s)) = " "
    THEN RStrip(SubSeq(s, 1, Len(s) - 1)) ELSE s

\* Python str.strip()
Strip(s) == RStrip(LStrip(s))

\* json's string escaping of one character.
EscChar(c, ensure_ascii) ==
    IF c = "\"" THEN "\\\""
    ELSE IF c = "\\" THEN "\\\\"
    ELSE IF c = NonAscii /\ ensure_ascii THEN "\\u2014"
    ELSE c

RECURSIVE EscStr(_, _)
EscStr(s, ensure_ascii) ==
    IF Len(s) = 0 THEN ""
    ELSE EscChar(SubSeq(s, 1, 1), ensure_ascii) \o EscStr(SubSeq(s, 2, Len(s)), ensure_ascii)

RECURSIVE JoinStr(_, _)
JoinStr(parts, sep) ==
    IF Len(parts) = 0 THEN ""
    ELSE IF Len(parts) = 1 THEN parts[1]
    ELSE parts[1] \o sep \o JoinStr(Tail(parts), sep)

\* ----------------------------------------------------------- Python values
PyStr(s) == [t |-> "str", s |-> s]
PyInt(n) == [t |-> "int", n |-> n]
PyBool(b) == [t |-> "bool", b |-> b]
PyNone == [t |-> "none"]
PyList(items) == [t |-> "list", items |-> items]
\* A dict keeps insertion order: keys[i] is bound to vals[i].
PyDict(keys, vals) == [t |-> "dict", keys |-> keys, vals |-> vals]

\* An Optional[...] value: None, or a value.
None == [some |-> FALSE]
Some(v) == [some |-> TRUE, v |-> v]

\* Python str(v) of a scalar
py_str(v) ==
    CASE v.t = "str" -> v.s
      [] v.t = "int" -> ToString(v.n)
      [] v.t = "bool" -> (IF v.b THEN "True" ELSE "False")
      [] v.t = "none" -> "None"

\* json.dumps(v, ensure_ascii=...); compact = TRUE renders the same value
\* without the spaces json.dumps puts after ',' and ':' (text another writer
\* may have produced, used only to read JSON back).
RECURSIVE json_render(_, _, _)
json_render(v, ensure_ascii, compact) ==
    LET item == IF compact THEN "," ELSE ", "
        colon == IF compact THEN ":" ELSE ": "
    IN CASE v.t = "str" -> "\"" \o EscStr(v.s, ensure_ascii) \o "\""
         [] v.t = "int" -> ToString(v.n)
         [] v.t = "bool" -> (IF v.b THEN "true" ELSE "false")
         [] v.t = "none" -> "null"
         [] v.t = "list" ->
              "[" \o JoinStr([i \in 1..Len(v.items) |->
                                json_render(v.items[i], ensure_ascii, compact)], item) \o "]"
         [] v.t = "dict" ->
              "{" \o JoinStr([i \in 1..Len(v.keys) |->
                                "\"" \o EscStr(v.keys[i], ensure_ascii) \o "\"" \o colon
                                \o json_render(v.vals[i], ensure_ascii, compact)], item) \o "}"

json_dumps(v, ensure_ascii) == json_render(v, ensure_ascii, FALSE)

\* JSON values the model's strings can denote: what the executors below return
\* or what an uploaded file can hold as text.
ErrDict(msg) == PyDict(<<"ok", "error">>, <<PyBool(FALSE), PyStr(msg)>>)

\* Messages of the exceptions the executors raise: int() on a bad max_results
\* (web_search), FileReader.read's "Access denied" (file_read).
ErrMsgs == {"invalid literal", "Access denied"}

\* SearchTool.search returns a list of "title - url - snippet" strings.
SearchResults == {PyList(<<PyStr("Tokyo" \o NonAscii \o "18C")>>)}

\* Text FileReader.read can return: plain text, and text that is itself JSON
\* (an object written without spaces).
FileTexts == {"sunny", "{\"k\":\"x\"}"}

JsonUniverse ==
    SearchResults \cup {ErrDict(m) : m \in ErrMsgs}
    \cup {PyInt(3), PyDict(<<"k">>, <<PyStr("x")>>)}

\* The JSON texts that denote v.
Renderings(v) ==
    {json_render(v, ea, c) : ea \in BOOLEAN, c \in BOOLEAN}

\* json.loads(s): the value s denotes, or a failure (ValueError) when s is not
\* JSON text.
json_loads(s) ==
    LET hits == {v \in JsonUniverse : s \in Renderings(v)}
    IN IF hits = {} THEN [ok |-> FALSE, v |-> PyNone]
       ELSE [ok |-> TRUE, v |-> CHOOSE v \in hits : TRUE]

\* ---------------------------------------------------------------- registry
\* ToolRegistry._tools after _register_defaults (the names; one spec per name).
registry_tools ==
    {"web_search", "file_read", "sqlite_query", "file_finder", "sqlite_execute"}

\* What running spec.executor(args) can do, per tool: return a value or raise.
Returned(v) == [exc |-> FALSE, msg |-> "", val |-> v]
Raised(m) == [exc |-> TRUE, msg |-> m, val |-> PyNone]

ExecutorOutcomes(name) ==
    CASE name = "web_search" ->
            {Returned(v) : v \in SearchResults} \cup {Raised("invalid literal")}
      [] name = "file_read" ->
            {Returned(PyStr(s)) : s \in FileTexts} \cup {Raised("Access denied")}
      [] OTHER -> {Returned(PyStr("No results found."))}

\* ToolRegistry.runtime_execute(name, args), given what the executor does.
\* raised = TRUE: a ValueError leaves runtime_execute; value is its message.
runtime_execute_reraise(name, outcome) ==
    IF name \notin registry_tools \/ outcome.exc
    THEN [raised |-> TRUE, value |-> IF name \notin registry_tools
                                     THEN "Unknown tool: " \o name ELSE outcome.msg]
    ELSE [raised |-> FALSE, value |-> IF outcome.val.t \in {"dict", "list"}
                                      THEN json_dumps(outcome.val, TRUE)
                                      ELSE py_str(outcome.val)]

runtime_execute(name, outcome) ==
    IF name \notin registry_tools
    THEN [raised |-> TRUE, value |-> "Unknown tool: " \o name]
    ELSE IF outcome.exc
    THEN [raised |-> FALSE, value |-> json_dumps(ErrDict(outcome.msg), TRUE)]
    ELSE IF outcome.val.t \in {"dict", "list"}
    THEN [raised |-> FALSE, value |-> json_dumps(outcome.val, TRUE)]
    ELSE [raised |-> FALSE, value |-> py_str(outcome.val)]

\* ------------------------------------------------------- Gemini conversions
\* tool_agent: result_payload = json.loads(result_str), else {"text": result_str}
result_payload(result_str) ==
    LET r == json_loads(result_str)
    IN IF r.ok THEN r.v ELSE PyDict(<<"text">>, <<PyStr(result_str)>>)

\* _tool_response_part(name, result): the function_response part of a tool turn.
tool_response_part(name, result) ==
    [role |-> "tool", name |-> name,
     response |-> IF result.t = "dict" THEN result
                  ELSE IF result.t = "list" THEN PyDict(<<"results">>, <<result>>)
                  ELSE PyDict(<<"text">>, <<PyStr(py_str(result))>>)]

\* _safe_text_from_response(resp): the text when it is not blank, else None
\* (None is modelled as "": every caller only tests the value for truth).
safe_text_from_response(text) == IF Strip(text) # "" THEN text ELSE ""

\* str(resp): the printed form of the response object, which is never the text
\* the model emitted.
StrResp == "<GenerateContentResponse>"

\* ------------------------------------------------------------------- state
VARIABLES
    provider,        \* dispatch_agent: provider id of the chat request
    variant,         \* dispatch_agent: "basic" | "custom" | "tool"
    tools,           \* dispatch_agent: names of the ToolSpecs the route resolved
    mod,             \* dispatch_agent: the agent module selected ("" before)
    agent_tools,     \* tool_agent: its tools argument (names of the ToolSpecs)
    pc,              \* where the request is
    nreq,            \* model requests issued so far in this invocation
    resp_text,       \* text of the response being handled
    resp_calls,      \* names of the tool calls of the response being handled
    idx,             \* position in resp_calls of the next call to execute
    last_text,       \* openai: last_msg_content; anthropic: last_text
    results,         \* tool results appended for the latest response with calls
    result,          \* the value the agent function returned
    fault,           \* the exception that left dispatch_agent ("" if none)
    seen_text,       \* history: the latest non-empty text a response carried
    exec_log,        \* history: what each call behind results did
    nexec,           \* history: executor runs so far in this invocation
    relative_path,   \* FileReader.read: its argument
    fr_outcome,      \* FileReader.read: what the call did
    call_arg,        \* a helper function under check: its argument
    call_ret,        \* a helper function under check: the value it returned
    working_msgs,    \* history: the turns the loop appended to its working set
                     \* (Some(turns); None where the history is not recorded)
    sent,            \* history: the appended turns the latest request carried
    task_mod,        \* concurrent requests: the agent module of each
    task_pc,         \* concurrent requests: where each request is
    loop_task,       \* the request whose code the event loop is running (0: none)
    app,             \* langgraph_full_agent._app: 0 (None) or the request that built it
    app_read,        \* _get_app in each request: the value of _app it read
    behind           \* history: the requests that were blocked when each one started

inputs == <<provider, variant, tools>>
fr_vars == <<relative_path, fr_outcome>>
fn_vars == <<call_arg, call_ret>>
ws_vars == <<working_msgs, sent>>
cc_vars == <<task_mod, task_pc, loop_task, app, app_read, behind>>
agent_vars == <<mod, agent_tools, nreq, resp_text, resp_calls, idx, last_text,
                results, result, fault, seen_text, exec_log, nexec>>
vars == <<provider, variant, tools, mod, agent_tools, pc, nreq, resp_text,
          resp_calls, idx, last_text, results, result, fault, seen_text,
          exec_log, nexec, relative_path, fr_outcome, call_arg, call_ret,
          working_msgs, sent, task_mod, task_pc, loop_task, app, app_read,
          behind>>

\* ------------------------------------------------------------- environment
\* Texts a model response can carry: none, blank, and two different answers
\* (one with surrounding blanks).
Texts == {"", " ", "hi", " ok "}

\* Tool names a model response can call: two registered, one unregistered.
CallNames == {"web_search", "file_read", "nope"}

CallSeqs == UNION {[1..n -> CallNames] : n \in 0..MaxCalls}

Responses == [text : Texts, calls : CallSeqs]

\* The id the provider gives the i-th call of the response to request n.
CallId(n, i) == 10 * n + i

\* ------------------------------------------------------------- dispatcher
\* dispatch_agent: the modules table.  deepseek_agent and langgraph_agent are
\* imported by the router but their code is not part of the source tree, so
\* requests are drawn only for the other provider ids.
modules ==
    [p \in {"openai", "anthropic", "google", "gemini", "gemini_mlg", "ollama",
            "deepseek", "langchain", "langgraph", "langgraph_full", "smolagent"} |->
        CASE p = "openai" -> "openai_agent"
          [] p = "anthropic" -> "anthropic_agent"
          [] p \in {"google", "gemini", "gemini_mlg"} -> "google_gemini_agent"
          [] p = "ollama" -> "ollama_agent"
          [] p = "deepseek" -> "deepseek_agent"
          [] p = "langchain" -> "langchain_agent"
          [] p = "langgraph" -> "langgraph_agent"
          [] p = "langgraph_full" -> "langgraph_full_agent"
          [] p = "smolagent" -> "smolagent_agent"]

\* Provider ids a request can name (one of them is not in the table).
ProviderIds ==
    (DOMAIN modules \ {"deepseek", "langgraph"}) \cup {"mistral"}

\* dispatch_agent: the providers it sends to the native tool loop.
NativeToolProviders ==
    {"openai", "anthropic", "google", "gemini", "langgraph", "langgraph_mlg"}

\* The agent modules that define tool_agent.
HasToolAgent == {"openai_agent", "anthropic_agent", "google_gemini_agent"}

\* ToolRegistry.get(names): the loop over a non-empty list of names.
registry_get_all(names) == names

registry_get(names) == SelectSeq(names, LAMBDA n : n \in registry_tools)

\* The tool lists the chat route can resolve and pass on.
ToolLists ==
    {<<>>, <<"file_read">>, <<"file_read", "web_search">>}

Variants == {"basic", "custom", "tool"}

\* dispatch_agent: the tools it passes to mod.tool_agent for variant "tool".
PassedTools(p, ts) ==
    IF p \in NativeToolProviders /\ ts # <<>> THEN ts
    ELSE registry_get(<<"web_search">>)

\* No helper call, no working set and no concurrent request is under way.
NoCall == call_arg = <<>> /\ call_ret = <<>>
NoWorkingSet == working_msgs = None /\ sent = <<>>
NoTasks ==
    /\ task_mod = <<>> /\ task_pc = <<>> /\ loop_task = 0
    /\ app = 0 /\ app_read = <<>> /\ behind = <<>>

Idle ==
    /\ mod = "" /\ agent_tools = <<>> /\ nreq = 0
    /\ resp_text = "" /\ resp_calls = <<>> /\ idx = 0 /\ last_text = ""
    /\ results = <<>> /\ result = "" /\ fault = ""
    /\ seen_text = "" /\ exec_log = <<>> /\ nexec = 0

Init ==
    /\ provider \in ProviderIds
    /\ variant \in Variants
    /\ tools \in ToolLists
    /\ pc = "dispatch"
    /\ Idle
    /\ relative_path = <<>> /\ fr_outcome = "idle"
    /\ NoCall /\ NoWorkingSet /\ NoTasks

\* dispatch_agent: provider in modules
KnownProviderNone(p) == FALSE

KnownProvider(p) == p \in DOMAIN modules

Dispatch ==
    /\ pc = "dispatch"
    /\ IF ~KnownProvider(provider)
       THEN /\ pc' = "raised"
            /\ fault' = "ValueError: Unknown provider/framework: " \o provider
            /\ UNCHANGED <<mod, agent_tools>>
       ELSE /\ mod' = modules[provider]
            /\ IF variant \in {"basic", "custom"}
               THEN pc' = "single" /\ UNCHANGED <<agent_tools, fault>>
               ELSE IF modules[provider] \in HasToolAgent
               THEN /\ pc' = "await_model"
                    /\ agent_tools' = PassedTools(provider, tools)
                    /\ UNCHANGED fault
               ELSE /\ pc' = "raised"
                    /\ fault' = "AttributeError: module has no attribute 'tool_agent'"
                    /\ UNCHANGED agent_tools
    /\ UNCHANGED <<inputs, nreq, resp_text, resp_calls, idx, last_text, results,
                   result, seen_text, exec_log, nexec, fr_vars, fn_vars, ws_vars, cc_vars>>

\* basic_agent / custom_system_prompt_agent of the selected module: one model
\* request (none in the smolagent stub), whose text is returned.
SingleRequest ==
    /\ pc = "single"
    /\ IF mod = "smolagent_agent"
       THEN /\ result' = "[SmolAgent stub]"
            /\ UNCHANGED <<nreq, resp_text, seen_text>>
       ELSE \E t \in Texts :
            /\ nreq' = nreq + 1
            /\ resp_text' = t
            /\ seen_text' = IF t # "" THEN t ELSE seen_text
            /\ result' = IF mod = "google_gemini_agent"
                         THEN (IF safe_text_from_response(t) # ""
                               THEN safe_text_from_response(t) ELSE StrResp)
                         ELSE t
    /\ pc' = "done"
    /\ UNCHANGED <<inputs, mod, agent_tools, resp_calls, idx, last_text, results,
                   fault, exec_log, nexec, fr_vars, fn_vars, ws_vars, cc_vars>>

\* ------------------------------------------------------------- tool loops
\* for tc in tool_calls: a call follows the i-th one.
MoreCallsNever(i, calls) == FALSE

MoreCalls(i, calls) == i < Len(calls)

\* for _ in range(4): another model request follows the n-th one.
LoopContinuesPastCap(n) == n <= MAX_ROUNDS

LoopContinues(n) == n < MAX_ROUNDS

\* What one call did: whether the name was registered (so its executor ran),
\* whether the executor raised (and with what message), and the result string
\* the loop got for the call ("" when an exception left the loop instead).
LogEntry(name, outcome, str) ==
    [name |-> name, ran |-> name \in registry_tools,
     exc |-> name \in registry_tools /\ outcome.exc,
     msg |-> IF name \in registry_tools /\ outcome.exc THEN outcome.msg ELSE "",
     str |-> str]

\* list.append / list.extend on the working set, where it is recorded.
RecordReplacing(ws, turns) == IF ws.some THEN Some(turns) ELSE ws

Record(ws, turns) == IF ws.some THEN Some(ws.v \o turns) ELSE ws

\* The appended turns a request issued now carries.
Carried(ws, before) == IF ws.some THEN ws.v ELSE before

\* A turn of the working set, reduced to what correlates calls and results:
\* the calls it records and the calls it answers, each named by its id (by
\* its function name in gemini, whose parts carry no id).
Turn(role, calls, answers) == [role |-> role, calls |-> calls, results |-> answers]

\* The ids of the calls of the response to request n.
CallIds(n, calls) == [i \in 1..Len(calls) |-> CallId(n, i)]

\* openai: return last_msg_content or "" (None is modelled as "").
OpenAICapFallbackEmpty(last_msg_content) == ""

OpenAICapFallback(last_msg_content) == last_msg_content

\* anthropic: return last_text or ""
AnthropicCapFallbackEmpty(text) == ""

AnthropicCapFallback(text) == text

\* openai tool_agent, one pass of the loop up to the tool calls: the request,
\* last_msg_content, and the return when the response has no tool calls.
OpenAIRequest ==
    /\ pc = "await_model" /\ mod = "openai_agent"
    /\ \E r \in Responses :
        /\ nreq' = nreq + 1
        /\ resp_text' = r.text
        /\ resp_calls' = r.calls
        /\ seen_text' = IF r.text # "" THEN r.text ELSE seen_text
        /\ last_text' = IF r.text # "" THEN r.text ELSE last_text
        /\ sent' = Carried(working_msgs, sent)
        /\ IF r.calls # <<>>
           THEN /\ pc' = "exec" /\ idx' = 1
                /\ results' = <<>> /\ exec_log' = <<>>
                /\ working_msgs' = Record(working_msgs,
                        <<Turn("assistant", CallIds(nreq + 1, r.calls), <<>>)>>)
                /\ UNCHANGED result
           ELSE /\ pc' = "done" /\ result' = r.text
                /\ UNCHANGED <<idx, results, exec_log, working_msgs>>
    /\ UNCHANGED <<inputs, mod, agent_tools, fault, nexec, fr_vars, fn_vars, cc_vars>>

\* openai tool_agent: one tool call of the response (json.loads of the
\* arguments, registry.runtime_execute, the tool message), and after the last
\* call either the next pass or the return at the cap.
OpenAIExecTool ==
    /\ pc = "exec" /\ mod = "openai_agent"
    /\ LET name == resp_calls[idx] IN
       \E o \in ExecutorOutcomes(name) :
        LET r == runtime_execute(name, o) IN
        /\ nexec' = IF name \in registry_tools THEN nexec + 1 ELSE nexec
        /\ exec_log' = Append(exec_log, LogEntry(name, o, IF r.raised THEN "" ELSE r.value))
        /\ IF r.raised
           THEN /\ pc' = "raised"
                /\ fault' = "ValueError: " \o r.value
                /\ UNCHANGED <<results, idx, result, working_msgs>>
           ELSE /\ results' = Append(results, [tool_call_id |-> CallId(nreq, idx),
                                               name |-> name, content |-> r.value])
                /\ working_msgs' = Record(working_msgs,
                        <<Turn("tool", <<>>, <<CallId(nreq, idx)>>)>>)
                /\ idx' = idx + 1
                /\ UNCHANGED fault
                /\ IF MoreCalls(idx, resp_calls) THEN pc' = "exec" /\ UNCHANGED result
                   ELSE IF LoopContinues(nreq) THEN pc' = "await_model" /\ UNCHANGED result
                   ELSE pc' = "done" /\ result' = OpenAICapFallback(last_text)
    /\ UNCHANGED <<inputs, mod, agent_tools, nreq, resp_text, resp_calls, last_text,
                   seen_text, fr_vars, fn_vars, sent, cc_vars>>

\* anthropic tool_agent, one pass of the loop up to the tool_use blocks.
AnthropicRequest ==
    /\ pc = "await_model" /\ mod = "anthropic_agent"
    /\ \E r \in Responses :
        /\ nreq' = nreq + 1
        /\ resp_text' = r.text
        /\ resp_calls' = r.calls
        /\ seen_text' = IF r.text # "" THEN r.text ELSE seen_text
        /\ last_text' = IF r.text # "" THEN r.text ELSE last_text
        /\ sent' = Carried(working_msgs, sent)
        /\ IF r.calls # <<>>
           THEN /\ pc' = "exec" /\ idx' = 1
                /\ results' = <<>> /\ exec_log' = <<>>
                /\ working_msgs' = Record(working_msgs,
                        <<Turn("assistant", CallIds(nreq + 1, r.calls), <<>>)>>)
                /\ UNCHANGED result
           ELSE /\ pc' = "done"
                /\ result' = IF r.text # "" THEN r.text ELSE last_text
                /\ UNCHANGED <<idx, results, exec_log, working_msgs>>
    /\ UNCHANGED <<inputs, mod, agent_tools, fault, nexec, fr_vars, fn_vars, cc_vars>>

\* anthropic tool_agent: one tool_use block (runtime_execute inside try/except,
\* the tool_result block), and after the last one the next pass or the return
\* at the cap.
AnthropicExecTool ==
    /\ pc = "exec" /\ mod = "anthropic_agent"
    /\ LET name == resp_calls[idx]
           tool_name == IF name # "" THEN name ELSE "_unknown_tool_" IN
       \E o \in ExecutorOutcomes(tool_name) :
        LET r == runtime_execute(tool_name, o)
            result_str == IF r.raised THEN "[tool error] ValueError: " \o r.value
                          ELSE r.value IN
        /\ nexec' = IF tool_name \in registry_tools THEN nexec + 1 ELSE nexec
        /\ exec_log' = Append(exec_log, LogEntry(tool_name, o, result_str))
        /\ results' = Append(results, [type |-> "tool_result",
                                       tool_use_id |-> CallId(nreq, idx),
                                       content |-> result_str])
        /\ idx' = idx + 1
        /\ working_msgs' =
              IF MoreCalls(idx, resp_calls) THEN working_msgs
              ELSE Record(working_msgs,
                          <<Turn("user", <<>>, CallIds(nreq, resp_calls))>>)
        /\ IF MoreCalls(idx, resp_calls) THEN pc' = "exec" /\ UNCHANGED result
           ELSE IF LoopContinues(nreq) THEN pc' = "await_model" /\ UNCHANGED result
           ELSE pc' = "done" /\ result' = AnthropicCapFallback(last_text)
    /\ UNCHANGED <<inputs, mod, agent_tools, nreq, resp_text, resp_calls, last_text,
                   fault, seen_text, fr_vars, fn_vars, sent, cc_vars>>

\* gemini tool_agent: the first turn; without function calls the first
\* response's text (or str(resp)) is returned.
GeminiFirstTurn ==
    /\ pc = "await_model" /\ mod = "google_gemini_agent" /\ nreq = 0
    /\ \E r \in Responses :
        /\ nreq' = 1
        /\ resp_text' = r.text
        /\ resp_calls' = r.calls
        /\ seen_text' = IF r.text # "" THEN r.text ELSE seen_text
        /\ IF r.calls # <<>>
           THEN pc' = "exec" /\ idx' = 1 /\ UNCHANGED result
           ELSE /\ pc' = "done"
                /\ result' = IF safe_text_from_response(r.text) # ""
                             THEN safe_text_from_response(r.text) ELSE StrResp
                /\ UNCHANGED idx
    /\ sent' = Carried(working_msgs, sent)
    /\ UNCHANGED <<results, exec_log, working_msgs>>
    /\ UNCHANGED <<inputs, mod, agent_tools, last_text, fault, nexec, fr_vars, fn_vars, cc_vars>>

\* gemini tool_agent: one function call of the first response
\* (runtime_execute inside try/except, json.loads of the result, the
\* function_response part appended to tool_msgs).
GeminiExecTool ==
    /\ pc = "exec" /\ mod = "google_gemini_agent"
    /\ LET fname == Strip(resp_calls[idx]) IN
       \E o \in ExecutorOutcomes(fname) :
        LET r == runtime_execute(fname, o)
            result_str == IF r.raised
                          THEN "[tool runtime error] ValueError: " \o r.value
                          ELSE r.value IN
        /\ nexec' = IF fname \in registry_tools THEN nexec + 1 ELSE nexec
        /\ exec_log' = Append(exec_log, LogEntry(fname, o, result_str))
        /\ results' = Append(results, tool_response_part(fname, result_payload(result_str)))
        /\ working_msgs' = Record(working_msgs, <<Turn("tool", <<>>, <<fname>>)>>)
        /\ idx' = idx + 1
        /\ pc' = IF MoreCalls(idx, resp_calls) THEN "exec" ELSE "await_model"
    /\ UNCHANGED <<inputs, mod, agent_tools, nreq, resp_text, resp_calls, last_text,
                   result, fault, seen_text, fr_vars, fn_vars, sent, cc_vars>>

\* gemini tool_agent: a second turn that would run the function calls of its
\* response.
GeminiSecondTurnExecutes ==
    /\ pc = "await_model" /\ mod = "google_gemini_agent" /\ nreq = 1
    /\ \E r \in Responses :
        /\ nreq' = 2
        /\ resp_text' = r.text
        /\ resp_calls' = r.calls
        /\ seen_text' = IF r.text # "" THEN r.text ELSE seen_text
        /\ IF r.calls # <<>>
           THEN pc' = "exec" /\ idx' = 1 /\ UNCHANGED result
           ELSE pc' = "done" /\ result' = Strip(r.text) /\ UNCHANGED idx
    /\ sent' = Carried(working_msgs, sent)
    /\ UNCHANGED <<inputs, mod, agent_tools, last_text, results, fault,
                   exec_log, nexec, fr_vars, fn_vars, working_msgs, cc_vars>>

\* gemini tool_agent: the second turn (tool results fed back) and the return:
\* the stripped text, or the last tool payload when the text is blank.
GeminiSecondTurn ==
    /\ pc = "await_model" /\ mod = "google_gemini_agent" /\ nreq = 1
    /\ \E r \in Responses :
        LET final_text == safe_text_from_response(r.text) IN
        /\ nreq' = 2
        /\ resp_text' = r.text
        /\ resp_calls' = r.calls
        /\ seen_text' = IF r.text # "" THEN r.text ELSE seen_text
        /\ result' = IF final_text # "" /\ Strip(final_text) # ""
                     THEN Strip(final_text)
                     ELSE json_dumps(results[Len(results)].response, FALSE)
    /\ pc' = "done"
    /\ sent' = Carried(working_msgs, sent)
    /\ UNCHANGED <<inputs, mod, agent_tools, idx, last_text, results, fault,
                   exec_log, nexec, fr_vars, fn_vars, working_msgs, cc_vars>>

\* The exception a failed provider call raises (APIError and the like).
ProviderFault == "ProviderError: model request failed"

\* A model request that fails and is issued again by the agent function.
ProviderCallRetried ==
    /\ \/ pc = "single" /\ mod # "smolagent_agent"
       \/ pc = "await_model" /\ mod \in HasToolAgent
    /\ nreq < MAX_ROUNDS
    /\ nreq' = nreq + 1
    /\ fault' = ProviderFault
    /\ sent' = IF pc = "await_model" THEN Carried(working_msgs, sent) ELSE sent
    /\ UNCHANGED <<inputs, mod, agent_tools, pc, resp_text, resp_calls, idx,
                   last_text, results, result, seen_text, exec_log, nexec, fr_vars, fn_vars,
                   working_msgs, cc_vars>>

\* The model request of basic_agent, custom_system_prompt_agent or tool_agent
\* raises: no agent function wraps the provider call in try/except, so the
\* exception leaves the agent function and dispatch_agent.
ProviderCallRaises ==
    /\ \/ pc = "single" /\ mod # "smolagent_agent"
       \/ pc = "await_model" /\ mod \in HasToolAgent
    /\ nreq' = nreq + 1
    /\ pc' = "raised"
    /\ fault' = ProviderFault
    /\ sent' = IF pc = "await_model" THEN Carried(working_msgs, sent) ELSE sent
    /\ UNCHANGED <<inputs, mod, agent_tools, resp_text, resp_calls, idx,
                   last_text, results, result, seen_text, exec_log, nexec, fr_vars, fn_vars,
                   working_msgs, cc_vars>>

\* The chat route: {"content": text} when dispatch_agent returned, an
\* HTTPException with status 500 and the exception text when it raised.
ChatResponse ==
    IF pc = "done" THEN [status |-> 200, body |-> result]
    ELSE IF pc = "raised" THEN [status |-> 500, body |-> fault]
    ELSE [status |-> 0, body |-> ""]

Next ==
    \/ Dispatch
    \/ ProviderCallRaises
    \/ SingleRequest
    \/ OpenAIRequest
    \/ OpenAIExecTool
    \/ AnthropicRequest
    \/ AnthropicExecTool
    \/ GeminiFirstTurn
    \/ GeminiExecTool
    \/ GeminiSecondTurn

Spec == Init /\ [][Next]_vars

\* -------------------------------------------------------------- FileReader
\* A path is the sequence of its components below the filesystem root.
\* UPLOAD_DIR = REPO_ROOT / "uploaded_files", REPO_ROOT being .../backend.
UPLOAD_DIR == <<"backend", "uploaded_files">>

\* Components a relative_path argument is made of.
Components == {"..", ".", "etc", "passwd", "notes.txt", "pic.png"}

\* The names that are files on the disk (the others are directories).
FileNames == {"passwd", "notes.txt", "pic.png"}

\* relative_path arguments: abs = TRUE when the string starts with "/".
RelPaths ==
    [abs : BOOLEAN, parts : UNION {[1..n -> Components] : n \in 0..MaxPathLen}]

\* pathlib: UPLOAD_DIR / relative_path.  An absolute argument replaces the
\* left side; "." components are dropped, ".." components are kept.
PathJoin(base, rel) ==
    LET kept == SelectSeq(rel.parts, LAMBDA c : c # ".")
    IN IF rel.abs THEN kept ELSE base \o kept

\* pathlib: p.parents, the lexical ancestors of p.
Parents(p) == {SubSeq(p, 1, n) : n \in 0..(Len(p) - 1)}


\* FileReader.read: UPLOAD_DIR not in p.parents and p != UPLOAD_DIR
AccessDenied(p) == UPLOAD_DIR \notin Parents(p) /\ p # UPLOAD_DIR

\* The location the operating system opens for p: ".." steps to the parent.
RECURSIVE Resolve(_)
Resolve(p) ==
    IF Len(p) = 0 THEN <<>>
    ELSE LET before == Resolve(SubSeq(p, 1, Len(p) - 1))
             c == p[Len(p)]
         IN IF c = ".."
            THEN (IF Len(before) = 0 THEN <<>> ELSE SubSeq(before, 1, Len(before) - 1))
            ELSE Append(before, c)

\* The location lies in the uploaded_files directory.
InsideUploadDir(loc) ==
    Len(loc) >= Len(UPLOAD_DIR) /\ SubSeq(loc, 1, Len(UPLOAD_DIR)) = UPLOAD_DIR

\* str.rfind(".") on a component name (0 when there is no dot; 1-based).
RECURSIVE RFindDot(_, _)
RFindDot(name, i) ==
    IF i = 0 THEN 0
    ELSE IF SubSeq(name, i, i) = "." THEN i
    ELSE RFindDot(name, i - 1)

\* pathlib: p.suffix of the last component.
Suffix(p) ==
    IF Len(p) = 0 THEN ""
    ELSE LET name == p[Len(p)]
             i == RFindDot(name, Len(name))
         IN IF 1 < i /\ i < Len(name) THEN SubSeq(name, i, Len(name)) ELSE ""

\* The extensions for which FileReader.read opens the file.
OpenedExts == {".txt", ".md", ".log", "", ".csv", ".json", ".pdf", ".docx", ".pptx"}

InitFileReader ==
    /\ provider = "openai" /\ variant = "tool" /\ tools = <<"file_read">>
    /\ Idle
    /\ pc = "fr_call"
    /\ relative_path \in RelPaths
    /\ fr_outcome = "idle"
    /\ NoCall /\ NoWorkingSet /\ NoTasks

\* FileReader.read(relative_path): "denied" = ValueError("Access denied");
\* "read" = the content of the file at the resolved location is returned;
\* "error" = opening failed, "[FileReader] Error reading file" is returned;
\* "message" = image or unsupported type, nothing is opened.
FileReaderRead ==
    /\ pc = "fr_call"
    /\ LET p == PathJoin(UPLOAD_DIR, relative_path)
           loc == Resolve(p) IN
       IF AccessDenied(p) THEN fr_outcome' = "denied"
       ELSE IF Suffix(p) \notin OpenedExts THEN fr_outcome' = "message"
       ELSE IF Len(loc) > 0 /\ loc[Len(loc)] \in FileNames
       THEN fr_outcome' \in {"read", "error"}
       ELSE fr_outcome' = "error"
    /\ pc' = "fr_done"
    /\ UNCHANGED <<inputs, mod, agent_tools, nreq, resp_text, resp_calls, idx,
                   last_text, results, result, fault, seen_text, exec_log, nexec,
                   relative_path, fn_vars, ws_vars, cc_vars>>

NextFileReader == FileReaderRead

SpecFileReader == InitFileReader /\ [][NextFileReader]_vars

\* ------------------------------------------------------------------ claims
\* The request ran one of the three tool loops (tool_agent of the OpenAI,
\* Anthropic or Gemini module).
InToolLoop == variant = "tool" /\ mod \in HasToolAgent

Terminated == pc \in {"done", "raised"}

\* Steps the request can still take: the rounds left, each at most one
\* request and MaxCalls tool calls, plus the calls left in this round.
StepsLeft ==
    CASE pc = "dispatch" -> 1 + MAX_ROUNDS * (MaxCalls + 1)
      [] pc = "single" -> 1
      [] pc = "await_model" -> (MAX_ROUNDS - nreq) * (MaxCalls + 1)
      [] pc = "exec" -> (MAX_ROUNDS - nreq) * (MaxCalls + 1) + (Len(resp_calls) - idx + 1)
      [] OTHER -> 0

\* The guard of one of the actions holds (their inputs, Responses and
\* ExecutorOutcomes, are never empty): the request can take a step once the
\* provider call or the executor it waits for returns.
CanStep ==
    \/ pc \in {"dispatch", "single"}
    \/ pc = "await_model" /\ mod \in {"openai_agent", "anthropic_agent"}
    \/ pc = "await_model" /\ mod = "google_gemini_agent" /\ nreq \in {0, 1}
    \/ pc = "exec" /\ mod \in HasToolAgent /\ idx \in 1..Len(resp_calls)

\* C1: whatever the model answers, tool_agent of the OpenAI, Anthropic and
\* Gemini modules terminates, and it never issues more than 4 model requests
\* in one invocation.  Termination: a request that has not ended can always
\* take a step (given that the provider call returns), and every step lowers
\* StepsLeft, which is never negative.
C1_BoundedTermination ==
    /\ [](InToolLoop => nreq <= MAX_ROUNDS)
    /\ [](Terminated \/ CanStep)
    /\ [](StepsLeft >= 0)
    /\ [][StepsLeft' < StepsLeft]_vars

\* C1 witness: a loop that ended at the cap: 4 requests made, the 4th response
\* still asking for tools.
C1_Witness ==
    /\ InToolLoop /\ pc = "done" /\ nreq = MAX_ROUNDS /\ resp_calls # <<>>

\* A response without tool calls ends each loop, so when the response in hand
\* carries calls every response before it did too (gemini: its first
\* response is the only one whose calls are looked at, and the second turn
\* exists only because the first carried calls).
EveryResponseCalled == resp_calls # <<>>

C3_Original ==
    (InToolLoop /\ nreq = 1 /\ resp_calls = <<>> /\ fault = "")
        => (pc = "done" /\ nexec = 0 /\ result = resp_text)

\* C4 as stated: if a response in round k > 1 has no tool calls and empty
\* text, tool_agent returns the most recent non-empty text of an earlier round,
\* in the OpenAI loop as well as in the Anthropic loop.
C4_Original ==
    (/\ InToolLoop /\ mod \in {"openai_agent", "anthropic_agent"}
     /\ pc = "done" /\ nreq > 1 /\ resp_calls = <<>> /\ resp_text = ""
     /\ seen_text # "")
        => result = seen_text

\* The tool result the loop appended for the i-th call of the round carries
\* the string str: openai and anthropic append the string itself, gemini the
\* JSON object the string denotes (as the function response).
Appended(i, str) ==
    /\ i <= Len(results)
    /\ IF mod = "google_gemini_agent"
       THEN json_loads(str) = [ok |-> TRUE, v |-> results[i].response]
       ELSE results[i].content = str

\* C5: if the executor of a registered tool raises, runtime_execute does not
\* raise and returns the JSON object string with ok = false and the error
\* message; the loop appends that string as the result of the call and goes
\* on (to the next call, the next model request, or the return at the cap)
\* instead of aborting.
C5_ExecutorErrorFedBack ==
    /\ [](InToolLoop =>
            \A i \in 1..Len(exec_log) :
                exec_log[i].exc =>
                    /\ exec_log[i].str = json_dumps(ErrDict(exec_log[i].msg), TRUE)
                    /\ Appended(i, exec_log[i].str)
                    /\ fault \in {"", ProviderFault} \/ i < Len(exec_log))
    /\ [][(/\ InToolLoop /\ pc = "exec" /\ idx = Len(resp_calls)
           /\ (IF mod = "google_gemini_agent" THEN nreq = 1 ELSE LoopContinues(nreq))
           /\ exec_log' # exec_log /\ exec_log'[Len(exec_log')].exc)
              => pc' = "await_model"]_vars

\* C5 witness: the OpenAI loop is about to issue its second request after the
\* executor of the only call of the first response raised.
C5_Witness ==
    /\ InToolLoop /\ mod = "openai_agent" /\ pc = "await_model" /\ nreq = 1
    /\ Len(exec_log) = 1 /\ exec_log[1].exc
    /\ results[1].content = "{\"ok\": false, \"error\": \"Access denied\"}"

\* C6 as stated: a tool call naming a tool that is not in the registry never
\* makes tool_agent raise (OpenAI, Anthropic, Gemini): the call yields a tool
\* result that is fed back and the loop goes on.
C6_Original ==
    (InToolLoop /\ exec_log # <<>> /\ ~exec_log[Len(exec_log)].ran)
        => (/\ fault # "ValueError: Unknown tool: " \o exec_log[Len(exec_log)].name
            /\ Len(results) = Len(exec_log))

\* The stringified payload of the most recently produced tool result.
LastToolPayload ==
    IF mod = "google_gemini_agent"
    THEN json_dumps(results[Len(results)].response, FALSE)
    ELSE results[Len(results)].content

\* C7 as stated: if at least one tool was executed, no response carried any
\* text and the model turn after the tool execution has empty text,
\* tool_agent (OpenAI, Anthropic, Gemini) returns the stringified payload of
\* the most recent tool result, not an empty answer.
C7_Original ==
    (InToolLoop /\ pc = "done" /\ nexec > 0 /\ seen_text = "" /\ resp_text = "")
        => (result # "" /\ result = LastToolPayload)

\* C8 as stated, in the loop that has the empty-answer fallback (gemini):
\* when the first response calls web_search, runtime_execute
\* returns the string R and the second response has empty text, the string
\* tool_agent returns equals R character for character.
C8_Original ==
    (/\ InToolLoop /\ mod = "google_gemini_agent"
     /\ pc = "done" /\ nreq = 2 /\ resp_text = ""
     /\ Len(exec_log) = 1 /\ exec_log[1].name = "web_search" /\ exec_log[1].ran)
        => result = exec_log[1].str

\* C9 as stated: FileReader.read fails with the access-denied error before
\* any content is read for every relative path that designates a location
\* outside uploaded_files: content is read only at locations inside it.
C9_Original ==
    (pc = "fr_done" /\ fr_outcome = "read")
        => InsideUploadDir(Resolve(PathJoin(UPLOAD_DIR, relative_path)))

\* C10 as stated: dispatch_agent with variant "tool" runs the tool loop with
\* the resolved tools when the provider is one it treats as native
\* tool-calling and a tool resolved; in every other case it completes in the
\* legacy single-tool mode: a single model request that advertises no tools.
C10_Original ==
    (/\ variant = "tool" /\ provider \in DOMAIN modules /\ Terminated
     /\ fault # ProviderFault)
        => IF provider \in NativeToolProviders /\ tools # <<>>
           THEN mod \in HasToolAgent /\ agent_tools = tools
           ELSE pc = "done" /\ nreq = 1 /\ agent_tools = <<>> /\ nexec <= 1

\* C11: dispatch_agent called with a provider id that is not in the provider
\* table fails with the unknown-provider error before any agent module is
\* selected, any model request is made or any tool executor runs; for a
\* provider id in the table that error is never raised.
C11_UnknownProvider ==
    /\ (provider \notin DOMAIN modules /\ pc # "dispatch")
          => /\ pc = "raised"
             /\ fault = "ValueError: Unknown provider/framework: " \o provider
             /\ mod = "" /\ nreq = 0 /\ nexec = 0 /\ exec_log = <<>>
    /\ provider \in DOMAIN modules
          => fault # "ValueError: Unknown provider/framework: " \o provider

\* C11 witness: the request for provider "mistral" was refused.
C11_Witness ==
    /\ provider = "mistral" /\ pc = "raised"
    /\ fault = "ValueError: Unknown provider/framework: mistral"

\* C12: a failed model request is never retried: once a provider call inside
\* basic_agent, custom_system_prompt_agent or tool_agent raises, the
\* invocation makes no further model request and runs no further tool, the
\* failure leaves dispatch_agent, and the chat route answers with an error.
C12_NoRetry ==
    /\ [](fault = ProviderFault =>
            /\ pc = "raised"
            /\ ChatResponse = [status |-> 500, body |-> ProviderFault])
    /\ [][fault = ProviderFault => (nreq' = nreq /\ nexec' = nexec)]_vars

\* C12 witness: the second request of the Anthropic loop failed after a tool
\* had run.
C12_Witness ==
    /\ InToolLoop /\ mod = "anthropic_agent" /\ fault = ProviderFault
    /\ nreq = 2 /\ nexec = 1 /\ pc = "raised"

\* ------------------------------------------------------ concurrent requests
\* Chat requests served by one event loop.  A request is "new" (received),
\* "queued" (its agent function handed to the executor), "get_app" /
\* "build_app" (langgraph_full_agent._get_app), "call" (the agent function is
\* about to call the provider), "blocked" (the provider call is in flight),
\* "finished" (the agent function returned) or "returned" (dispatch_agent
\* returned to the chat route).
Requests == 1..MaxRequests

\* Agent modules of the concurrent requests: one with a tool loop, and the one
\* that keeps a module-level variable.
TaskMods == {"openai_agent", "langgraph_full_agent"}

\* inspect.iscoroutinefunction(fn) for the agent functions: all of them are
\* plain def functions.
IsCoroutineFunction(m) == FALSE

\* _maybe_async(fn): the agent function runs in a worker thread
\* (asyncio.to_thread) unless it is a coroutine function.
RunsOffLoopNever(m) == FALSE

RunsOffLoop(m) == ~IsCoroutineFunction(m)

\* Positions in which a request occupies a worker thread.
InThread == {"get_app", "build_app", "call", "blocked"}

BusyWorkers == Cardinality({r \in Requests : task_pc[r] \in InThread /\ loop_task # r})

InitConcurrent ==
    /\ provider = "openai" /\ variant = "basic" /\ tools = <<>>
    /\ Idle /\ pc = "serving"
    /\ relative_path = <<>> /\ fr_outcome = "idle"
    /\ NoCall /\ NoWorkingSet
    /\ task_mod \in [Requests -> TaskMods]
    /\ task_pc = [r \in Requests |-> "new"]
    /\ loop_task = 0
    /\ app = 0
    /\ app_read = [r \in Requests |-> 0]
    /\ behind = [r \in Requests |-> {}]

single_vars == <<inputs, pc, agent_vars, fr_vars, fn_vars, ws_vars>>

\* The first position of the agent function of module m.
EntryPc(m) == IF m = "langgraph_full_agent" THEN "get_app" ELSE "call"

\* chat -> dispatch_agent up to `await fn(...)`: runs on the event loop, which
\* it gives up at the await when fn was wrapped by _maybe_async.
StartRequest(r) ==
    /\ task_pc[r] = "new" /\ loop_task = 0
    /\ behind' = [behind EXCEPT ![r] = {q \in Requests : task_pc[q] = "blocked"}]
    /\ IF RunsOffLoop(task_mod[r])
       THEN task_pc' = [task_pc EXCEPT ![r] = "queued"] /\ UNCHANGED loop_task
       ELSE task_pc' = [task_pc EXCEPT ![r] = EntryPc(task_mod[r])] /\ loop_task' = r
    /\ UNCHANGED <<single_vars, task_mod, app, app_read>>

\* asyncio.to_thread: a free worker thread takes the agent function.
ThreadStarts(r) ==
    /\ task_pc[r] = "queued" /\ BusyWorkers < ThreadPoolWorkers
    /\ task_pc' = [task_pc EXCEPT ![r] = EntryPc(task_mod[r])]
    /\ UNCHANGED <<single_vars, task_mod, loop_task, app, app_read, behind>>

\* _get_app: `if _app is None` reads the module-level variable.
GetAppRead(r) ==
    /\ task_pc[r] = "get_app"
    /\ app_read' = [app_read EXCEPT ![r] = app]
    /\ task_pc' = [task_pc EXCEPT ![r] = IF app = 0 THEN "build_app" ELSE "call"]
    /\ UNCHANGED <<single_vars, task_mod, loop_task, app, behind>>

\* _get_app: `_app = _build_app()` writes the module-level variable.
GetAppWrite(r) ==
    /\ task_pc[r] = "build_app"
    /\ app' = r
    /\ task_pc' = [task_pc EXCEPT ![r] = "call"]
    /\ UNCHANGED <<single_vars, task_mod, loop_task, app_read, behind>>

\* The agent function issues a provider call (or runs a tool executor) and
\* waits for it.
ProviderCallStarts(r) ==
    /\ task_pc[r] = "call"
    /\ task_pc' = [task_pc EXCEPT ![r] = "blocked"]
    /\ UNCHANGED <<single_vars, task_mod, loop_task, app, app_read, behind>>

\* The call returns: the agent function makes another one (tool loop only)
\* or returns.
ProviderCallEnds(r) ==
    /\ task_pc[r] = "blocked"
    /\ \E nxt \in IF task_mod[r] = "openai_agent" THEN {"call", "finished"}
                  ELSE {"finished"} :
          task_pc' = [task_pc EXCEPT ![r] = nxt]
    /\ UNCHANGED <<single_vars, task_mod, loop_task, app, app_read, behind>>

\* The event loop resumes dispatch_agent, which returns the text to chat.
RequestReturns(r) ==
    /\ task_pc[r] = "finished" /\ loop_task \in {0, r}
    /\ task_pc' = [task_pc EXCEPT ![r] = "returned"]
    /\ loop_task' = 0
    /\ UNCHANGED <<single_vars, task_mod, app, app_read, behind>>

NextConcurrent ==
    \E r \in Requests :
        \/ StartRequest(r)
        \/ ThreadStarts(r)
        \/ GetAppRead(r)
        \/ GetAppWrite(r)
        \/ ProviderCallStarts(r)
        \/ ProviderCallEnds(r)
        \/ RequestReturns(r)

SpecConcurrent == InitConcurrent /\ [][NextConcurrent]_vars

C14_Original ==
    \A r \in Requests :
        /\ app_read[r] \in {0, r}
        /\ task_pc[r] = "build_app" => app \in {0, r}

\* ------------------------------------------------------- ToolRegistry.get
\* Names a caller can ask for: three registered ones and an unregistered one.
AskedNames == {"web_search", "file_read", "sqlite_query", "nope"}

NamesArgs ==
    {None} \cup {Some(ns) : ns \in UNION {[1..n -> AskedNames] : n \in 0..MaxNames}}

\* ToolRegistry.get(names) with its `if not names: return []` guard; a ToolSpec
\* is identified by its name (the registry holds one spec per name).
ToolRegistry_get(names) ==
    IF ~names.some \/ names.v = <<>> THEN <<>> ELSE registry_get(names.v)

InitRegistryGet ==
    /\ provider = "openai" /\ variant = "tool" /\ tools = <<>>
    /\ Idle /\ pc = "get_call"
    /\ relative_path = <<>> /\ fr_outcome = "idle"
    /\ NoWorkingSet /\ NoTasks
    /\ call_arg \in NamesArgs
    /\ call_ret = <<>>

RegistryGet ==
    /\ pc = "get_call"
    /\ call_ret' = ToolRegistry_get(call_arg)
    /\ pc' = "get_done"
    /\ UNCHANGED <<inputs, agent_vars, fr_vars, call_arg, ws_vars, cc_vars>>

NextRegistryGet == RegistryGet

SpecRegistryGet == InitRegistryGet /\ [][NextRegistryGet]_vars

\* The positions of names that hold a registered name, and the k-th of them.
RegisteredAt(names) == {i \in 1..Len(names) : names[i] \in registry_tools}
KthRegistered(names, k) ==
    CHOOSE i \in RegisteredAt(names) :
        Cardinality({j \in RegisteredAt(names) : j <= i}) = k

\* C15: registry.get(names) returns exactly the specs of the registered
\* entries of names, in the order given and with repeated names repeated; it
\* drops every unregistered name without raising, and returns the empty list
\* when names is absent or empty.
C15_GetKnownInOrder ==
    pc = "get_done" =>
        IF ~call_arg.some THEN call_ret = <<>>
        ELSE LET names == call_arg.v IN
             /\ Len(call_ret) = Cardinality(RegisteredAt(names))
             /\ \A k \in 1..Len(call_ret) :
                    call_ret[k] = names[KthRegistered(names, k)]

\* C15 witness: a list with a repeated registered name around an unregistered
\* one.
C15_Witness ==
    /\ pc = "get_done"
    /\ call_arg = Some(<<"file_read", "nope", "file_read">>)
    /\ call_ret = <<"file_read", "file_read">>

\* ------------------------------------------------------------ conversations
\* ChatMessage: role is one of three literals and content is a str (pydantic
\* rejects anything else before chat calls dispatch_agent).
Roles == {"system", "user", "assistant"}
Contents == {"S", "hi"}
ChatMessages == [role : Roles, content : {PyStr(c) : c \in Contents}]
MessageLists == UNION {[1..n -> ChatMessages] : n \in 0..MaxMsgs}

\* [f(x) for x in xs]
MapSeq(f(_), xs) == [i \in 1..Len(xs) |-> f(xs[i])]

\* dispatch_agent._validate_messages: keeps the messages whose content is a
\* str, int or float, with the content turned into a str.
validate_messages_skipping(messages) ==
    SelectSeq(messages, LAMBDA m : m.role # "assistant")

validate_messages(messages) ==
    LET kept == SelectSeq(messages, LAMBDA m : m.content.t \in {"str", "int", "float"})
        conv(m) == [role |-> m.role, content |-> PyStr(py_str(m.content))]
    IN MapSeq(conv, kept)

\* anthropic_agent._to_messages: (system_blocks, turns)
to_messages(messages) ==
    LET system_texts == MapSeq(LAMBDA m : m.content.s,
                               SelectSeq(messages, LAMBDA m : m.role = "system"))
        turn(m) == [role |-> m.role,
                    content |-> <<[type |-> "text", text |-> m.content.s]>>]
    IN [system_blocks |->
            IF system_texts # <<>>
            THEN Some(<<[type |-> "text", text |-> JoinStr(system_texts, "\n")]>>)
            ELSE None,
        turns |-> MapSeq(turn, SelectSeq(messages, LAMBDA m : m.role # "system"))]

\* google_gemini_agent._ALLOWED_ROLES.get(role, "user")
ALLOWED_ROLES(role) ==
    CASE role = "user" -> "user"
      [] role = "assistant" -> "model"
      [] role = "system" -> "user"
      [] OTHER -> "user"

\* google_gemini_agent._normalize_messages
normalize_messages(messages) ==
    LET kept == SelectSeq(messages, LAMBDA m : m.content.t # "none")
        conv(m) == [role |-> ALLOWED_ROLES(m.role), parts |-> <<py_str(m.content)>>]
    IN MapSeq(conv, kept)

Normalizers == {"_validate_messages", "_to_messages", "_normalize_messages"}

InitNormalize ==
    /\ provider = "openai" /\ variant = "basic" /\ tools = <<>>
    /\ Idle /\ pc = "norm_call"
    /\ relative_path = <<>> /\ fr_outcome = "idle"
    /\ NoWorkingSet /\ NoTasks
    /\ call_arg \in [fn : Normalizers, messages : MessageLists]
    /\ call_ret = <<>>

\* One of the three message conversions applied to a message list.
Normalize ==
    /\ pc = "norm_call"
    /\ call_ret' = CASE call_arg.fn = "_validate_messages" ->
                            validate_messages(call_arg.messages)
                     [] call_arg.fn = "_to_messages" ->
                            to_messages(call_arg.messages).turns
                     [] call_arg.fn = "_normalize_messages" ->
                            normalize_messages(call_arg.messages)
    /\ pc' = "norm_done"
    /\ UNCHANGED <<inputs, agent_vars, fr_vars, call_arg, ws_vars, cc_vars>>

NextNormalize == Normalize

SpecNormalize == InitNormalize /\ [][NextNormalize]_vars

\* The text a produced turn carries.
TurnText(fn, turn) ==
    CASE fn = "_validate_messages" -> turn.content.s
      [] fn = "_to_messages" -> turn.content[1].text
      [] fn = "_normalize_messages" -> turn.parts[1]

\* The role name the conversion gives to a user or assistant message.
RoleName(fn, role) ==
    IF fn = "_normalize_messages" /\ role = "assistant" THEN "model" ELSE role

\* The positions of the user and assistant messages of a list.
Spoken(messages) == {i \in 1..Len(messages) : messages[i].role # "system"}

\* C17: message normalization never reorders or drops conversation turns:
\* the turns produced by _to_messages and _normalize_messages, and the list
\* kept by _validate_messages, carry the user and assistant messages
\* one-to-one, in input order and with unchanged content, only the role name
\* being translated (there is an order-preserving map from the user and
\* assistant messages onto produced turns, and every other produced turn
\* comes from a system message).
C17_OrderPreserved ==
    pc = "norm_done" =>
        LET fn == call_arg.fn
            msgs == call_arg.messages
            \* where the i-th input message lands in the output
            at(i) == IF fn = "_to_messages"
                     THEN Cardinality({j \in Spoken(msgs) : j <= i})
                     ELSE i
        IN /\ \A i \in Spoken(msgs) :
                /\ at(i) \in 1..Len(call_ret)
                /\ TurnText(fn, call_ret[at(i)]) = msgs[i].content.s
                /\ call_ret[at(i)].role = RoleName(fn, msgs[i].role)
           /\ \A i, j \in Spoken(msgs) : i < j => at(i) < at(j)
           /\ Len(call_ret) = IF fn = "_to_messages"
                              THEN Cardinality(Spoken(msgs)) ELSE Len(msgs)

\* C17 witness: a history with a system message between two spoken turns went
\* through _to_messages.
C17_Witness ==
    /\ pc = "norm_done" /\ call_arg.fn = "_to_messages"
    /\ Len(call_arg.messages) = 3
    /\ call_arg.messages[1].role = "user"
    /\ call_arg.messages[2].role = "system"
    /\ call_arg.messages[3].role = "assistant"
    /\ Len(call_ret) = 2 /\ call_ret[2].role = "assistant"

\* ------------------------------------------------------------ system prompt
\* The agent functions that take a system prompt.  langgraph_full_agent builds
\* its message list as langchain_agent does.
PromptAdapters ==
    {<<"openai_agent", "custom">>, <<"openai_agent", "tool">>,
     <<"anthropic_agent", "custom">>, <<"anthropic_agent", "tool">>,
     <<"google_gemini_agent", "custom">>, <<"google_gemini_agent", "tool">>,
     <<"ollama_agent", "custom">>, <<"langchain_agent", "custom">>}

\* Prompts the caller supplies ("" stands for None as well: the code only
\* tests the value for truth).
Prompts == {"", "P"}

SystemMessage(text) == [role |-> "system", content |-> PyStr(text)]

\* What the agent function sends in its (first) model request: the separate
\* system parameter (None when the API call carries none) and the messages.
model_request(m, fn, messages, system_prompt) ==
    CASE m \in {"ollama_agent", "langchain_agent"}
            \/ (m = "openai_agent" /\ fn = "custom") ->
            [system |-> None,
             messages |-> <<SystemMessage(system_prompt)>> \o messages]
      [] m = "openai_agent" /\ fn = "tool" ->
            [system |-> None,
             messages |-> IF system_prompt # ""
                          THEN <<SystemMessage(system_prompt)>> \o messages
                          ELSE messages]
      [] m = "anthropic_agent" /\ fn = "custom" ->
            [system |-> Some(system_prompt),
             messages |-> to_messages(messages).turns]
      [] m = "anthropic_agent" /\ fn = "tool" ->
            LET tm == to_messages(messages)
                merged_texts ==
                    (IF tm.system_blocks.some
                     THEN MapSeq(LAMBDA b : b.text, tm.system_blocks.v) ELSE <<>>)
                    \o <<system_prompt>>
            IN [system |->
                    IF system_prompt # ""
                    THEN Some(JoinStr(SelectSeq(merged_texts, LAMBDA t : t # ""), "\n"))
                    ELSE IF tm.system_blocks.some
                    THEN Some(tm.system_blocks.v[1].text) ELSE None,
                messages |-> tm.turns]
      [] m = "google_gemini_agent" /\ fn = "custom" ->
            [system |-> Some(system_prompt),
             messages |-> normalize_messages(messages)]
      [] m = "google_gemini_agent" /\ fn = "tool" ->
            [system |-> IF system_prompt # "" THEN Some(system_prompt) ELSE None,
             messages |-> normalize_messages(messages)]

\* dispatch_agent, variant "custom": an absent prompt gets the default one.
custom_prompt(system_prompt) ==
    IF system_prompt = "" THEN "You are a helpful assistant." ELSE system_prompt

InitSystemPrompt ==
    /\ provider = "openai" /\ variant = "custom" /\ tools = <<>>
    /\ Idle /\ pc = "sp_call"
    /\ relative_path = <<>> /\ fr_outcome = "idle"
    /\ NoWorkingSet /\ NoTasks
    /\ call_arg \in [adapter : PromptAdapters, messages : MessageLists,
                     system_prompt : Prompts]
    /\ call_ret = <<>>

\* custom_system_prompt_agent / tool_agent up to the first model request.
BuildRequest ==
    /\ pc = "sp_call"
    /\ call_ret' = model_request(call_arg.adapter[1], call_arg.adapter[2],
                                 call_arg.messages,
                                 IF call_arg.adapter[2] = "custom"
                                 THEN custom_prompt(call_arg.system_prompt)
                                 ELSE call_arg.system_prompt)
    /\ pc' = "sp_done"
    /\ UNCHANGED <<inputs, agent_vars, fr_vars, call_arg, ws_vars, cc_vars>>

NextSystemPrompt == BuildRequest

SpecSystemPrompt == InitSystemPrompt /\ [][NextSystemPrompt]_vars

\* The system texts of a message list, in order.
SystemTexts(messages) ==
    MapSeq(LAMBDA m : m.content.s, SelectSeq(messages, LAMBDA m : m.role = "system"))

\* The system instruction a request gives the model: its system parameter
\* followed by its system-role messages, one per line.
SystemInstruction(req) ==
    JoinStr((IF req.system.some THEN <<req.system.v>> ELSE <<>>)
            \o MapSeq(LAMBDA m : m.content.s,
                      SelectSeq(req.messages, LAMBDA m : m.role = "system")),
            "\n")

\* C16 as stated: when the history contains system messages and the caller
\* supplies a system prompt, the system instruction sent to the model is the
\* history's system text followed by the supplied prompt, in the custom and
\* tool variants of every provider adapter.
C16_Original ==
    (/\ pc = "sp_done" /\ call_arg.system_prompt # ""
     /\ SystemTexts(call_arg.messages) # <<>>)
        => SystemInstruction(call_ret)
             = JoinStr(SystemTexts(call_arg.messages) \o <<call_arg.system_prompt>>, "\n")

\* ------------------------------------------- _sanitize_jsonschema_for_gemini
\* The keys the sanitizer removes from a schema and the keys it keeps.
DroppedKeys ==
    {"additionalProperties", "minimum", "maximum", "exclusiveMinimum",
     "exclusiveMaximum", "minLength", "maxLength", "pattern", "default", "format",
     "examples", "example", "title", "deprecated", "nullable", "readOnly",
     "writeOnly", "minItems", "maxItems", "const", "oneOf", "anyOf", "allOf",
     "$schema", "$id"}

AllowedKeys == {"type", "properties", "required", "description", "enum", "items"}

\* if s.get("type") == "integer": s["type"] = "number"
coerce_type_flip(v) ==
    IF v = PyStr("integer") THEN PyStr("number")
    ELSE IF v = PyStr("number") THEN PyStr("integer") ELSE v

coerce_type_never(v) == v

coerce_type(v) == IF v = PyStr("integer") THEN PyStr("number") ELSE v

\* new_props[prop_name] = the sanitized property schema, name by name
new_props_filtered(props, sanitized) ==
    LET kept == SelectSeq([i \in 1..Len(props.keys) |-> i],
                          LAMBDA i : props.keys[i] \notin DroppedKeys)
    IN PyDict([n \in 1..Len(kept) |-> props.keys[kept[n]]],
              [n \in 1..Len(kept) |-> sanitized[kept[n]]])

new_props(props, sanitized) == PyDict(props.keys, sanitized)

\* _sanitize_jsonschema_for_gemini(schema)
RECURSIVE sanitize_jsonschema_for_gemini(_)
sanitize_jsonschema_for_gemini(s) ==
    IF s.t = "dict"
    THEN LET kept == SelectSeq([i \in 1..Len(s.keys) |-> i],
                               LAMBDA i : s.keys[i] \notin DroppedKeys
                                          /\ s.keys[i] \in AllowedKeys)
             value(i) ==
                LET k == s.keys[i]
                    v == s.vals[i]
                IN CASE k = "type" -> coerce_type(v)
                     [] k = "properties" ->
                          IF v.t = "dict"
                          THEN new_props(v,
                                      [j \in 1..Len(v.vals) |->
                                          sanitize_jsonschema_for_gemini(v.vals[j])])
                          ELSE PyDict(<<>>, <<>>)
                     [] k = "items" -> sanitize_jsonschema_for_gemini(v)
                     [] k = "required" -> IF v.t = "list" THEN v ELSE PyList(<<>>)
                     [] OTHER -> v
         IN PyDict([n \in 1..Len(kept) |-> s.keys[kept[n]]],
                   [n \in 1..Len(kept) |-> value(kept[n])])
    ELSE IF s.t = "list"
    THEN PyList([i \in 1..Len(s.items) |-> sanitize_jsonschema_for_gemini(s.items[i])])
    ELSE s

\* A dict built from optional entries: the pairs whose value is present.
DictOf(pairs) ==
    LET present == SelectSeq(pairs, LAMBDA p : p[2].some)
    IN PyDict([i \in 1..Len(present) |-> present[i][1]],
              [i \in 1..Len(present) |-> present[i][2].v])

Optional(S) == {None} \cup {Some(v) : v \in S}

\* An object schema with a property of its own, named like a dropped key.
NestedSchema ==
    PyDict(<<"type", "properties">>,
           <<PyStr("object"),
             PyDict(<<"format">>,
                    <<PyDict(<<"type", "format">>, <<PyStr("integer"), PyStr("int32")>>)>>)>>)

\* Property schemas: well-formed ones and ones with a non-list required or a
\* list-valued type.
LeafSchemas ==
    {DictOf(<<<<"type", ty>>, <<"default", df>>, <<"required", rq>>>>) :
        ty \in Optional({PyStr("integer"), PyStr("string"), PyList(<<PyStr("integer")>>)}),
        df \in Optional({PyInt(3)}),
        rq \in Optional({PyStr("q")})}
    \cup {PyStr("integer"), NestedSchema}

\* Schemas as ToolSpec.parameters can hold them, malformed ones included:
\* properties that is not a mapping, a property named like a dropped key,
\* list-valued items, nested schemas.
Schemas ==
    {DictOf(<<<<"type", ty>>, <<"properties", pr>>, <<"items", it>>,
              <<"additionalProperties", ap>>, <<"required", rq>>>>) :
        ty \in Optional({PyStr("object"), PyStr("integer")}),
        pr \in Optional({PyStr("bad")}
                        \cup {PyDict(<<k>>, <<l>>) : k \in {"q", "default"}, l \in LeafSchemas}),
        it \in Optional(LeafSchemas \cup {PyList(<<l, PyStr("integer")>>) : l \in LeafSchemas}),
        ap \in Optional({PyBool(FALSE)}),
        rq \in Optional({PyList(<<PyStr("q")>>)})}

InitSanitize ==
    /\ provider = "google" /\ variant = "tool" /\ tools = <<>>
    /\ Idle /\ pc = "san_call"
    /\ relative_path = <<>> /\ fr_outcome = "idle"
    /\ NoWorkingSet /\ NoTasks
    /\ call_arg \in Schemas
    /\ call_ret = <<>>

\* _sanitize_jsonschema_for_gemini applied to a schema.
Sanitize ==
    /\ pc = "san_call"
    /\ call_ret' = <<sanitize_jsonschema_for_gemini(call_arg)>>
    /\ pc' = "san_again"
    /\ UNCHANGED <<inputs, agent_vars, fr_vars, call_arg, ws_vars, cc_vars>>

\* _sanitize_jsonschema_for_gemini applied to what it returned.
SanitizeAgain ==
    /\ pc = "san_again"
    /\ call_ret' = Append(call_ret, sanitize_jsonschema_for_gemini(call_ret[1]))
    /\ pc' = "san_done"
    /\ UNCHANGED <<inputs, agent_vars, fr_vars, call_arg, ws_vars, cc_vars>>

NextSanitize == Sanitize \/ SanitizeAgain

SpecSanitize == InitSanitize /\ [][NextSanitize]_vars

\* C18: _sanitize_jsonschema_for_gemini is idempotent: sanitizing a sanitized
\* schema gives the same schema, key for key and property for property,
\* malformed input schemas included.
C18_SanitizeIdempotent ==
    pc = "san_done" => call_ret[2] = call_ret[1]

\* C18 witness: a malformed schema (properties not a mapping, list-valued
\* items, an integer type, a dropped key) was sanitized twice, the first pass
\* having changed it.
C18_Witness ==
    /\ pc = "san_done"
    /\ call_arg = DictOf(<<<<"type", Some(PyStr("integer"))>>,
                           <<"properties", Some(PyStr("bad"))>>,
                           <<"items", Some(PyList(<<PyStr("integer"), PyStr("integer")>>))>>,
                           <<"additionalProperties", Some(PyBool(FALSE))>>>>)
    /\ call_ret[1] = DictOf(<<<<"type", Some(PyStr("number"))>>,
                              <<"properties", Some(PyDict(<<>>, <<>>))>>,
                              <<"items", Some(PyList(<<PyStr("integer"), PyStr("integer")>>))>>>>)

\* ---------------------------------------------------------------------------
\* The working set of tool_agent
\* ---------------------------------------------------------------------------

\* The caller's message list, handed to dispatch_agent.
CallerMessages == <<[role |-> "user", content |-> PyStr("hi")]>>

\* A dispatch whose working set is recorded.  The list a request of the tool
\* loop carries is the initial turns, built once at entry from the caller's
\* messages, followed by the turns appended so far.
InitWorkingSet ==
    /\ provider \in ProviderIds
    /\ variant \in Variants
    /\ tools \in ToolLists
    /\ pc = "dispatch"
    /\ Idle
    /\ relative_path = <<>> /\ fr_outcome = "idle"
    /\ call_arg = CallerMessages /\ call_ret = <<>>
    /\ working_msgs = Some(<<>>) /\ sent = <<>>
    /\ NoTasks

SpecWorkingSet == InitWorkingSet /\ [][Next]_vars

IsPrefix(s, t) == Len(s) <= Len(t) /\ SubSeq(t, 1, Len(s)) = s

\* Turn k of the list is preceded by an assistant turn recording call c.
PrecededByCall(list, k, c) ==
    \E j \in 1..(k - 1) :
        /\ list[j].role = "assistant"
        /\ \E i \in DOMAIN list[j].calls : list[j].calls[i] = c

\* C19: in every provider loop, no tool result is sent to the model without
\* a preceding assistant turn that contains the matching call.
C19_Original ==
    InToolLoop =>
        \A k \in DOMAIN sent : \A i \in DOMAIN sent[k].results :
            PrecededByCall(sent, k, sent[k].results[i])

\* C20: within one tool_agent invocation the working set is append-only: the
\* turns carried by one model request are a prefix of those carried by the
\* next, an appended turn is never modified or removed, and the caller's
\* message list is left as it was.
C20_AppendOnly ==
    [][(InToolLoop /\ working_msgs.some) =>
          /\ IsPrefix(working_msgs.v, working_msgs'.v)
          /\ IsPrefix(sent, sent')
          /\ IsPrefix(sent', working_msgs'.v)
          /\ call_arg' = call_arg]_vars

\* A third request of the openai loop, carrying the turns of two rounds.
C20_Witness ==
    /\ InToolLoop /\ working_msgs.some
    /\ mod = "openai_agent"
    /\ nreq = 3
    /\ Len(sent) >= 4
    /\ call_arg = CallerMessages

\* ---------------------------------------------------------------------------
\* The arguments of a tool call
\* ---------------------------------------------------------------------------

\* ToolSpec.parameters["properties"] of the registered tools: declared names.
Properties(name) ==
    CASE name \in {"sqlite_query", "sqlite_execute"} -> <<"sql">>
      [] name = "web_search" -> <<"query", "max_results">>
      [] name = "file_read" -> <<"path">>
      [] OTHER -> <<>>

\* Argument mappings a model can supply: none, declared and undeclared keys.
ArgKeyLists ==
    {<<>>, <<"sql">>, <<"query">>, <<"x">>, <<"sql", "x">>, <<"x", "query">>}

ArgValues == {PyStr("SELECT 1"), PyStr("v")}

ArgDicts ==
    {PyDict(ks, [i \in 1..Len(ks) |-> IF i = 1 THEN v ELSE PyStr("w")]) :
        ks \in ArgKeyLists, v \in ArgValues}

\* Argument text that is not JSON: one holding a declared name, one of
\* length one, one that is neither.
BadArgTexts == {"sql=1", "z", "{bad"}

\* json.loads of an argument string.
json_loads_args(s) ==
    LET hits == {v \in ArgDicts : s \in Renderings(v)}
    IN IF hits = {} THEN [ok |-> FALSE, v |-> PyNone]
       ELSE [ok |-> TRUE, v |-> CHOOSE v \in hits : TRUE]

\* Python truth value of v, negated.
Falsy(v) ==
    \/ v.t = "none"
    \/ v.t = "str" /\ v.s = ""
    \/ v.t = "dict" /\ v.keys = <<>>
    \/ v.t = "list" /\ v.items = <<>>

\* sub in s, for str
Contains(s, sub) ==
    \E i \in 1..(Len(s) - Len(sub) + 1) : SubSeq(s, i, i + Len(sub) - 1) = sub

\* What a loop does with one call: registry.runtime_execute(name, args) is
\* called, or an exception leaves tool_agent before it is.
Executed(args) == [kind |-> "executed", args |-> args]
Aborted(exc) == [kind |-> "aborted", args |-> PyNone, exc |-> exc]

\* The forms in which each provider hands over the arguments of a call:
\* tc.function.arguments (a str or None), tu.input (a mapping or None),
\* fc.args (a mapping, or a str).
WireArgs(m) ==
    CASE m = "openai_agent" ->
            {PyStr(json_dumps(d, TRUE)) : d \in ArgDicts}
            \cup {PyStr(t) : t \in BadArgTexts} \cup {PyStr(""), PyNone}
      [] m = "anthropic_agent" -> ArgDicts \cup {PyNone}
      [] m = "google_gemini_agent" ->
            ArgDicts \cup {PyStr(json_dumps(d, TRUE)) : d \in ArgDicts}
            \cup {PyStr(t) : t \in BadArgTexts} \cup {PyNone}

\* openai tool_agent: args_str = tc.function.arguments or "{}";
\* args = json.loads(args_str), {} when that raises.
openai_call_args(arguments) ==
    LET args_str == IF Falsy(arguments) THEN "{}" ELSE arguments.s
        r == json_loads_args(args_str)
    IN Executed(IF r.ok THEN r.v ELSE PyDict(<<>>, <<>>))

\* anthropic tool_agent: runtime_execute(tool_name, input_obj or {})
anthropic_call_args(input_obj) ==
    Executed(IF Falsy(input_obj) THEN PyDict(<<>>, <<>>) ELSE input_obj)

\* _extract_function_calls: fc.args or {}, decoded when it is a str that
\* json.loads accepts, left as it is otherwise; then args or {}.
extract_function_call_args(fc_args) ==
    LET args == IF Falsy(fc_args) THEN PyDict(<<>>, <<>>) ELSE fc_args
        decoded == IF args.t = "str" /\ json_loads_args(args.s).ok
                   THEN json_loads_args(args.s).v ELSE args
    IN IF Falsy(decoded) THEN PyDict(<<>>, <<>>) ELSE decoded

\* dict(raw_args)
py_dict_of(raw_args) ==
    IF raw_args.t = "dict" THEN Executed(raw_args) ELSE Aborted("ValueError")

\* gemini tool_agent: mapped_args for a call of fname, tools being the
\* ToolSpec list the agent was given.
gemini_mapped_args(tool_list, fname, raw_args) ==
    LET found == \E i \in DOMAIN tool_list : tool_list[i] = fname
        props == Properties(fname)
    IN IF found /\ props # <<>>
       THEN IF raw_args.t = "dict"
            THEN LET hit == SelectSeq(props,
                                LAMBDA k : \E i \in DOMAIN raw_args.keys : raw_args.keys[i] = k)
                     at(k) == CHOOSE i \in DOMAIN raw_args.keys : raw_args.keys[i] = k
                 IN IF hit = <<>> /\ Len(raw_args.keys) = 1
                    THEN Executed(PyDict(<<raw_args.keys[1]>>, <<raw_args.vals[1]>>))
                    ELSE Executed(PyDict(hit, [n \in 1..Len(hit) |-> raw_args.vals[at(hit[n])]]))
            ELSE \* a str: "k in raw_args" tests for a substring
                 IF \E i \in DOMAIN props : Contains(raw_args.s, props[i])
                 THEN Aborted("TypeError")
                 ELSE IF Len(raw_args.s) = 1 THEN Aborted("AttributeError")
                 ELSE Executed(PyDict(<<>>, <<>>))
       ELSE py_dict_of(raw_args)

\* Calls whose argument handling is examined: the loop, the tools advertised,
\* the tool called and the arguments as the provider delivered them.
AdvertisedLists == {<<>>, <<"sqlite_query", "web_search", "file_finder">>}

ArgCalls ==
    UNION {[mod : {m}, tools : AdvertisedLists,
            name : {"sqlite_query", "web_search", "file_finder", "nope"},
            arguments : WireArgs(m)] : m \in HasToolAgent}

InitArgs ==
    /\ provider = "openai" /\ variant = "tool" /\ tools = <<>>
    /\ Idle /\ pc = "args_call"
    /\ relative_path = <<>> /\ fr_outcome = "idle"
    /\ NoWorkingSet /\ NoTasks
    /\ call_arg \in ArgCalls
    /\ call_ret = <<>>

OpenAIArgs ==
    /\ pc = "args_call" /\ call_arg.mod = "openai_agent"
    /\ call_ret' = openai_call_args(call_arg.arguments)
    /\ pc' = "args_done"
    /\ UNCHANGED <<inputs, agent_vars, fr_vars, call_arg, ws_vars, cc_vars>>

AnthropicArgs ==
    /\ pc = "args_call" /\ call_arg.mod = "anthropic_agent"
    /\ call_ret' = anthropic_call_args(call_arg.arguments)
    /\ pc' = "args_done"
    /\ UNCHANGED <<inputs, agent_vars, fr_vars, call_arg, ws_vars, cc_vars>>

GeminiArgs ==
    /\ pc = "args_call" /\ call_arg.mod = "google_gemini_agent"
    /\ call_ret' = gemini_mapped_args(call_arg.tools, call_arg.name,
                                      extract_function_call_args(call_arg.arguments))
    /\ pc' = "args_done"
    /\ UNCHANGED <<inputs, agent_vars, fr_vars, call_arg, ws_vars, cc_vars>>

NextArgs == OpenAIArgs \/ AnthropicArgs \/ GeminiArgs

SpecArgs == InitArgs /\ [][NextArgs]_vars

\* The call names an advertised tool whose schema declares properties.
SchemaKnown == \E i \in DOMAIN call_arg.tools : call_arg.tools[i] = call_arg.name

\* The argument mapping the model supplied, when the wire form denotes one.
Supplied ==
    LET a == call_arg.arguments
    IN IF a.t = "dict" THEN Some(a)
       ELSE IF a.t = "str" /\ json_loads_args(a.s).ok THEN Some(json_loads_args(a.s).v)
       ELSE None

KeySet(d) == {d.keys[i] : i \in DOMAIN d.keys}
ValueAt(d, k) == d.vals[CHOOSE i \in DOMAIN d.keys : d.keys[i] = k]

\* C21: when the call names an advertised tool with a schema, the mapping
\* given to runtime_execute holds only declared keys, each with the value the
\* model supplied, in every provider loop.
C21_Original ==
    (pc = "args_done" /\ SchemaKnown /\ call_ret.kind = "executed" /\ Supplied.some) =>
        /\ call_ret.args.t = "dict"
        /\ KeySet(call_ret.args) \subseteq KeySet(PyDict(Properties(call_arg.name), <<>>))
        /\ \A k \in KeySet(call_ret.args) :
              k \in KeySet(Supplied.v) /\ ValueAt(call_ret.args, k) = ValueAt(Supplied.v, k)

\* C22: schema known, no supplied key declared, exactly one argument
\* supplied: the sole declared parameter is bound to that value.
C22_Original ==
    (/\ pc = "args_done" /\ call_arg.mod = "google_gemini_agent"
     /\ SchemaKnown /\ Len(Properties(call_arg.name)) = 1 /\ Supplied.some
     /\ Len(Supplied.v.keys) = 1
     /\ KeySet(Supplied.v) \cap KeySet(PyDict(Properties(call_arg.name), <<>>)) = {}) =>
        /\ call_ret.kind = "executed"
        /\ call_ret.args = PyDict(Properties(call_arg.name), Supplied.v.vals)

\* C23: argument text that cannot be decoded is passed to the tool execution
\* as it is: neither replaced by an empty mapping nor aborting tool_agent.
C23_Original ==
    (/\ pc = "args_done"
     /\ call_arg.arguments.t = "str" /\ call_arg.arguments.s # ""
     /\ ~json_loads_args(call_arg.arguments.s).ok) =>
        /\ call_ret.kind = "executed"
        /\ call_ret.args = call_arg.arguments

\* ---------------------------------------------------------------------------
\* Text and tool calls in one response
\* ---------------------------------------------------------------------------

\* C24: the text of a response that also carried tool calls is the answer
\* returned when no later round produces non-empty text.  (A loop that
\* returns after more than one request with a last response without text:
\* the most recent text came from a response whose calls kept the loop going.)
C24_Original ==
    (InToolLoop /\ pc = "done" /\ nreq > 1 /\ resp_text = "" /\ seen_text # "")
        => result = seen_text

\* ---------------------------------------------------------------------------
\* The sanitized schema
\* ---------------------------------------------------------------------------

\* The value bound to key k in mapping d (k is a key of d).
Entry(d, k) == d.vals[CHOOSE i \in DOMAIN d.keys : d.keys[i] = k]
HasKey(d, k) == \E i \in DOMAIN d.keys : d.keys[i] = k

\* Every mapping reachable from s through properties values and items has
\* only allow-listed keys and no type "integer".
RECURSIVE SchemaClean(_)
SchemaClean(s) ==
    IF s.t = "dict"
    THEN /\ \A i \in DOMAIN s.keys : s.keys[i] \in AllowedKeys
         /\ HasKey(s, "type") => Entry(s, "type") # PyStr("integer")
         /\ (HasKey(s, "properties") /\ Entry(s, "properties").t = "dict") =>
                \A j \in DOMAIN Entry(s, "properties").vals :
                    SchemaClean(Entry(s, "properties").vals[j])
         /\ HasKey(s, "items") => SchemaClean(Entry(s, "items"))
    ELSE IF s.t = "list"
    THEN \A i \in DOMAIN s.items : SchemaClean(s.items[i])
    ELSE TRUE

\* C25: in the output of _sanitize_jsonschema_for_gemini every schema mapping
\* reachable through properties values and items has only keys of the
\* allow-list, and none has type "integer".
C25_SanitizedClean ==
    pc \in {"san_again", "san_done"} => SchemaClean(call_ret[1])

\* C25 witness: a schema with an integer type and dropped keys two levels
\* down was sanitized.
C25_Witness ==
    /\ pc = "san_again"
    /\ call_arg = PyDict(<<"type", "properties", "additionalProperties">>,
                         <<PyStr("object"), PyDict(<<"q">>, <<NestedSchema>>), PyBool(FALSE)>>)
    /\ ~SchemaClean(call_arg)
    /\ call_ret[1] =
         PyDict(<<"type", "properties">>,
                <<PyStr("object"),
                  PyDict(<<"q">>,
                         <<PyDict(<<"type", "properties">>,
                                  <<PyStr("object"),
                                    PyDict(<<"format">>,
                                           <<PyDict(<<"type">>, <<PyStr("number")>>)>>)>>)>>)>>)

\* The property names of a schema mapping.
PropertyNames(s) ==
    IF s.t = "dict" /\ HasKey(s, "properties") /\ Entry(s, "properties").t = "dict"
    THEN {Entry(s, "properties").keys[i] : i \in DOMAIN Entry(s, "properties").keys}
    ELSE {}

\* Nesting depth through properties and items.
RECURSIVE Depth(_)
Depth(s) ==
    LET Max(S) == IF S = {} THEN 0 ELSE CHOOSE m \in S : \A n \in S : n <= m
    IN IF s.t = "dict"
       THEN 1 + Max({Depth(Entry(s, "properties").vals[j]) :
                        j \in (IF PropertyNames(s) = {} THEN {}
                               ELSE DOMAIN Entry(s, "properties").vals)}
                    \cup (IF HasKey(s, "items") THEN {Depth(Entry(s, "items"))} ELSE {}))
       ELSE IF s.t = "list"
       THEN Max({Depth(s.items[i]) : i \in DOMAIN s.items})
       ELSE 0

\* b has, level by level, the property names and the items of a.
RECURSIVE SameShape(_, _)
SameShape(a, b) ==
    IF a.t = "dict"
    THEN /\ b.t = "dict"
         /\ PropertyNames(b) = PropertyNames(a)
         /\ \A k \in PropertyNames(a) :
                SameShape(Entry(Entry(a, "properties"), k), Entry(Entry(b, "properties"), k))
         /\ HasKey(b, "items") <=> HasKey(a, "items")
         /\ HasKey(a, "items") => SameShape(Entry(a, "items"), Entry(b, "items"))
    ELSE IF a.t = "list"
    THEN /\ b.t = "list" /\ Len(b.items) = Len(a.items)
         /\ \A i \in DOMAIN a.items : SameShape(a.items[i], b.items[i])
    ELSE b.t = a.t

\* C26: at every nesting level reached through properties and items the
\* sanitized schema has exactly the property names of the input schema, a
\* property named like a dropped keyword included, and the same nesting depth.
C26_ShapePreserved ==
    pc \in {"san_again", "san_done"} =>
        /\ SameShape(call_arg, call_ret[1])
        /\ Depth(call_ret[1]) = Depth(call_arg)

\* C26 witness: a schema with a property called "default" whose schema holds
\* a property called "format" was sanitized and both names are still there.
C26_Witness ==
    /\ pc = "san_done"
    /\ call_arg = PyDict(<<"type", "properties", "additionalProperties">>,
                         <<PyStr("object"), PyDict(<<"default">>, <<NestedSchema>>), PyBool(FALSE)>>)
    /\ PropertyNames(call_ret[1]) = {"default"}
    /\ PropertyNames(Entry(Entry(call_ret[1], "properties"), "default")) = {"format"}
    /\ Depth(call_ret[1]) = 3
    /\ call_ret[1] # call_arg

\* ---------------------------------------------------------------------------
\* The registry on the request path
\* ---------------------------------------------------------------------------

\* The parameter schemas of _register_defaults.
StringProp(d) == PyDict(<<"type", "description">>, <<PyStr("string"), PyStr(d)>>)

ObjectSchema(names, props, required) ==
    PyDict(<<"type", "properties", "required", "additionalProperties">>,
           <<PyStr("object"), PyDict(names, props),
             PyList([i \in 1..Len(required) |-> PyStr(required[i])]), PyBool(FALSE)>>)

ParametersOf(name) ==
    CASE name = "web_search" ->
            ObjectSchema(<<"query", "max_results">>,
                         <<StringProp("Required."),
                           PyDict(<<"type", "minimum", "maximum", "default", "description">>,
                                  <<PyStr("integer"), PyInt(1), PyInt(10), PyInt(3),
                                    PyStr("Optional.")>>)>>,
                         <<"query">>)
      [] name = "file_read" -> ObjectSchema(<<"path">>, <<StringProp("Required.")>>, <<"path">>)
      [] name = "file_finder" -> ObjectSchema(<<>>, <<>>, <<>>)
      [] OTHER -> ObjectSchema(<<"sql">>, <<StringProp("Required.")>>, <<"sql">>)

\* ToolRegistry._tools after __init__: one ToolSpec under each name.
ToolsAtStartup ==
    [n \in registry_tools |->
        [name |-> n, description |-> "Tool " \o n, parameters |-> ParametersOf(n)]]

\* What an operation does: the registry it leaves and the value it returns.
Outcome(reg, ret) == [tools |-> reg, ret |-> ret]

\* The value returned by the operation op.
Ret(op, value) == [op |-> op, value |-> value]

\* ToolRegistry.get(names), returning the ToolSpec objects held by reg.
get_specs(reg, names) ==
    LET found == ToolRegistry_get(names)
    IN Outcome(reg, [i \in 1..Len(found) |-> reg[found[i]]])

\* ToolRegistry.runtime_execute(name, args): the registry is only read.
runtime_execute_on(reg, name, outcome) == Outcome(reg, runtime_execute(name, outcome))

\* to_openai_tools / to_anthropic_tools / to_gemini_function_decls: one
\* declaration per spec, holding the spec's name, description and parameters.
to_openai_tools(reg, specs) ==
    Outcome(reg, [i \in 1..Len(specs) |->
                    [type |-> "function",
                     function |-> [name |-> specs[i].name,
                                   description |-> specs[i].description,
                                   parameters |-> specs[i].parameters]]])

to_anthropic_tools(reg, specs) ==
    Outcome(reg, [i \in 1..Len(specs) |->
                    [name |-> specs[i].name, description |-> specs[i].description,
                     input_schema |-> specs[i].parameters]])

to_gemini_function_decls(reg, specs) ==
    Outcome(reg, [i \in 1..Len(specs) |->
                    [name |-> specs[i].name, description |-> specs[i].description,
                     parameters |-> specs[i].parameters]])

\* The registry after _sanitize_jsonschema_for_gemini ran on the parameters
\* of the given specs: the function edits a deep copy of the schema, so the
\* schemas the registry holds are as before.
sanitized_in_place(reg, specs) ==
    [n \in DOMAIN reg |->
        IF \E i \in DOMAIN specs : specs[i].name = n
        THEN [reg[n] EXCEPT !.parameters = sanitize_jsonschema_for_gemini(@)]
        ELSE reg[n]]

sanitized_on_copy(reg, specs) == reg

\* _to_gemini_tools(tools)
to_gemini_tools(reg, specs) ==
    IF specs = <<>> THEN Outcome(reg, PyNone)
    ELSE Outcome(sanitized_on_copy(reg, specs),
                 PyList(<<[function_declarations |->
                      [i \in 1..Len(specs) |->
                          [name |-> specs[i].name, description |-> specs[i].description,
                           parameters |->
                              sanitize_jsonschema_for_gemini(specs[i].parameters)]]]>>))

\* dispatch_agent, tool_usage_instructions: one section per tool with its
\* name, description and the argument names of the call pattern (the required
\* names, then the other properties).
tool_usage_instructions(reg, specs) ==
    LET props(sp) == Entry(sp.parameters, "properties").keys
        required(sp) == [i \in 1..Len(Entry(sp.parameters, "required").items) |->
                            Entry(sp.parameters, "required").items[i].s]
        inreq(sp, k) == \E i \in DOMAIN required(sp) : required(sp)[i] = k
    IN Outcome(reg, [i \in 1..Len(specs) |->
                       [name |-> specs[i].name, description |-> specs[i].description,
                        keys |-> required(specs[i])
                                 \o SelectSeq(props(specs[i]),
                                              LAMBDA k : ~inreq(specs[i], k))]])

\* Lists of names the chat route asks the registry for.
AskedLists == {None, Some(<<>>), Some(<<"file_read", "nope">>), Some(<<"web_search", "file_finder">>)}

InitRegistryOps ==
    /\ provider = "openai" /\ variant = "tool" /\ tools = <<>>
    /\ Idle /\ pc = "registry_ops"
    /\ relative_path = <<>> /\ fr_outcome = "idle"
    /\ NoWorkingSet /\ NoTasks
    /\ call_arg = ToolsAtStartup
    /\ call_ret = <<>>

\* One operation applied to the registry: its effect on the registry and its
\* return value, appended to the values returned so far.
Applied(op, o) ==
    /\ pc = "registry_ops" /\ Len(call_ret) < MaxOps
    /\ call_arg' = o.tools
    /\ call_ret' = Append(call_ret, Ret(op, o.ret))
    /\ UNCHANGED <<inputs, pc, agent_vars, fr_vars, ws_vars, cc_vars>>

OpGet == \E names \in AskedLists : Applied("get", get_specs(call_arg, names))

OpRuntimeExecute ==
    \E name \in CallNames : \E o \in ExecutorOutcomes(name) :
        Applied("runtime_execute", runtime_execute_on(call_arg, name, o))

OpToOpenAITools ==
    \E names \in AskedLists : Applied("to_openai_tools", to_openai_tools(call_arg, get_specs(call_arg, names).ret))

OpToAnthropicTools ==
    \E names \in AskedLists : Applied("to_anthropic_tools", to_anthropic_tools(call_arg, get_specs(call_arg, names).ret))

OpToGeminiFunctionDecls ==
    \E names \in AskedLists :
        Applied("to_gemini_function_decls", to_gemini_function_decls(call_arg, get_specs(call_arg, names).ret))

OpToGeminiTools ==
    \E names \in AskedLists : Applied("_to_gemini_tools", to_gemini_tools(call_arg, get_specs(call_arg, names).ret))

OpDispatch ==
    \E names \in AskedLists :
        Applied("dispatch_agent", tool_usage_instructions(call_arg, get_specs(call_arg, names).ret))

NextRegistryOps ==
    \/ OpGet
    \/ OpRuntimeExecute
    \/ OpToOpenAITools
    \/ OpToAnthropicTools
    \/ OpToGeminiFunctionDecls
    \/ OpToGeminiTools
    \/ OpDispatch

SpecRegistryOps == InitRegistryOps /\ [][NextRegistryOps]_vars

\* C27: after startup no request-path operation adds, removes or replaces a
\* registered tool or changes a registered name, description or schema, and
\* the registry holds one spec per name (each stored under its own name).
C27_RegistryReadOnly ==
    /\ [][pc = "registry_ops" => call_arg' = call_arg]_vars
    /\ [](pc = "registry_ops" =>
            /\ call_arg = ToolsAtStartup
            /\ DOMAIN call_arg = registry_tools
            /\ \A n \in DOMAIN call_arg : call_arg[n].name = n)

\* C27 witness: _to_gemini_tools returned a sanitized declaration of
\* web_search that differs from the registered schema, which is as it was.
C27_Witness ==
    /\ pc = "registry_ops" /\ Len(call_ret) = MaxOps
    /\ call_ret[MaxOps].op = "_to_gemini_tools"
    /\ call_ret[MaxOps].value.t = "list"
    /\ call_ret[MaxOps].value.items[1].function_declarations[1].name = "web_search"
    /\ call_ret[MaxOps].value.items[1].function_declarations[1].parameters
          # call_arg["web_search"].parameters
    /\ call_arg["web_search"].parameters = ParametersOf("web_search")

\* ---------------------------------------------------------------------------
\* Advertised tools and executed tools
\* ---------------------------------------------------------------------------

\* C28: within one request an executor runs only for a tool that is among
\* the tools tool_agent was given to advertise in that request.
C28_Original ==
    InToolLoop =>
        \A i \in DOMAIN exec_log :
            exec_log[i].ran =>
                \E j \in DOMAIN agent_tools : agent_tools[j] = exec_log[i].name

\* ---------------------------------------------------------------------------
\* Order of tool executions and model requests
\* ---------------------------------------------------------------------------

InCappedLoop == InToolLoop /\ mod \in {"openai_agent", "anthropic_agent"}

\* C29: in the openai and anthropic loops the calls of a response are
\* executed one after another in the order emitted, all of them before the
\* next model request; the calls of the 4th response are executed too,
\* although their results are in no request when the fallback answer is
\* returned.
C29_CallsInOrderBeforeNextRequest ==
    /\ [](InCappedLoop /\ nreq >= 1 /\ resp_calls # <<>> =>
            /\ Len(exec_log) <= Len(resp_calls)
            /\ \A i \in DOMAIN exec_log : exec_log[i].name = resp_calls[i]
            /\ pc = "exec" => Len(exec_log) = idx - 1)
    /\ [][(InCappedLoop /\ nreq >= 1 /\ nreq' = nreq + 1) =>
            Len(exec_log) = Len(resp_calls)]_vars
    /\ [](InCappedLoop /\ pc = "done" /\ resp_calls # <<>> =>
            /\ nreq = MAX_ROUNDS
            /\ Len(exec_log) = Len(resp_calls)
            /\ working_msgs.some =>
                  /\ Len(working_msgs.v) > Len(sent)
                  /\ \A k \in DOMAIN sent : \A i \in DOMAIN sent[k].results :
                        sent[k].results[i] \notin {CallId(MAX_ROUNDS, j) : j \in 1..MaxCalls})

\* C29 witness: the openai loop returned at the cap after running both calls
\* of the 4th response, whose results are in the working set and in no request.
C29_Witness ==
    /\ InCappedLoop /\ mod = "openai_agent" /\ working_msgs.some
    /\ pc = "done" /\ nreq = MAX_ROUNDS
    /\ resp_calls = <<"file_read", "web_search">>
    /\ Len(exec_log) = 2 /\ exec_log[1].ran /\ exec_log[2].ran
    /\ exec_log[1].name = "file_read" /\ exec_log[2].name = "web_search"
    /\ working_msgs.v[Len(working_msgs.v)] = Turn("tool", <<>>, <<CallId(MAX_ROUNDS, 2)>>)
    /\ Len(sent) < Len(working_msgs.v) - 2

InGeminiFlow == InToolLoop /\ mod = "google_gemini_agent"

\* C30: the gemini tool_agent issues at most two model requests; tools are
\* executed only for the function calls of the first response; function calls
\* in the second response are neither executed nor followed by a request.
C30_GeminiTwoRequests ==
    /\ [](InGeminiFlow => nreq <= 2)
    /\ [](InGeminiFlow /\ nreq = 2 => Terminated)
    /\ [](InGeminiFlow /\ pc = "exec" => nreq = 1)
    /\ [][(InGeminiFlow /\ (exec_log' # exec_log \/ nexec' # nexec)) =>
            (nreq = 1 /\ nreq' = 1 /\ exec_log' = Append(exec_log, exec_log'[Len(exec_log')])
             /\ exec_log'[Len(exec_log')].name = Strip(resp_calls[idx]))]_vars
    /\ [][(InGeminiFlow /\ nreq = 2) => (nreq' = 2 /\ exec_log' = exec_log)]_vars

\* C30 witness: the gemini flow returned after its second request, whose
\* response asked for two more function calls that were not run: the only
\* execution is that of the first response's call.
C30_Witness ==
    /\ InGeminiFlow /\ pc = "done" /\ nreq = 2
    /\ resp_calls = <<"web_search", "file_read">>
    /\ Len(exec_log) = 1 /\ exec_log[1].name = "file_read" /\ nexec = 1

====
